---- MODULE Spec2Model ----
(***************************************************************************)
(* Model of the two portfolio analysis scripts of the repository:          *)
(*   impl = "app" : src/app_portafolio.py          (Portafolio Proactivo)  *)
(*   impl = "fin" : src/practicalibrefinansmart.py (FinRisk Pro)           *)
(* One analysis request is one run of the button handler: download,        *)
(* emptiness check, daily returns, annualised statistics, the Monte Carlo  *)
(* trial loop and the selection of the optimum.                            *)
(*                                                                         *)
(* Numbers.  A float is modelled exactly, as a triple:                     *)
(*   <<"q", n, d>>   the rational n/d (d > 0, lowest terms)                *)
(*   <<"sd", n, d>>  the surd sign(n) * sqrt(|n|/d): a square root or a    *)
(*                   quotient rational/sqrt (risk, volatility, Sharpe)     *)
(*   <<"inf", s, 0>> +infinity (s = 1) or -infinity (s = -1)               *)
(*   <<"nan", 0, 0>> IEEE not-a-number                                     *)
(* Rounding error is not modelled; NaN and infinity, which numpy and       *)
(* pandas produce instead of raising, are.                                 *)
(***************************************************************************)
EXTENDS Integers, Sequences, FiniteSets, TLC

\* ---- bounds of the model ----
MaxAssets == 2
MaxRows == 3
MaxPrice == 2
MaxTrials == 2
MaxDraw == 2
MaxRuns == 2

\* ---- program constants ----
TradingDays == 252

VARIABLES
  impl, tickers_input, tickers, num_simulaciones, tasa_libre_riesgo, columns,
  market, order,
  pc, err, data, rent_diaria, rent_promedio, riesgo, sharpe,
  precios_normalizados, cov_matrix_anual, equal_portfolio, results,
  weights_record, i, max_sharpe_idx, min_risk_idx, optimo, shown, cov_calls,
  run, prev

vars == <<impl, tickers_input, tickers, num_simulaciones, tasa_libre_riesgo,
          columns, market, order,
          pc, err, data, rent_diaria, rent_promedio, riesgo, sharpe,
          precios_normalizados, cov_matrix_anual, equal_portfolio, results,
          weights_record, i, max_sharpe_idx, min_risk_idx, optimo, shown,
          cov_calls, run, prev>>

\* what a request is given: the widgets' values, the table the market-data
\* source answers with (its column labels and its rows) and the order in which
\* the trial indices are run
inputs == <<impl, tickers_input, tickers, num_simulaciones, tasa_libre_riesgo,
            columns, market, order>>

\* ======================= float arithmetic =======================
Abs(x) == IF x < 0 THEN -x ELSE x

Sign(x) == IF x < 0 THEN -1 ELSE IF x > 0 THEN 1 ELSE 0

RECURSIVE GCD(_, _)
GCD(a, b) == IF b = 0 THEN a ELSE GCD(b, a % b)

NaN == <<"nan", 0, 0>>

Inf(s) == <<"inf", s, 0>>

\* the rational n/d, d # 0, in lowest terms with a positive denominator
Q(n, d) ==
  LET g == GCD(Abs(n), Abs(d))
      s == IF d < 0 THEN -1 ELSE 1
  IN <<"q", (s * n) \div g, (s * d) \div g>>

Zero == Q(0, 1)

One == Q(1, 1)

IsNaN(x) == x[1] = "nan"

IsInf(x) == x[1] = "inf"

\* sign of a non-NaN value
SignOf(x) == IF IsInf(x) THEN x[2] ELSE Sign(x[2])

Neg(x) ==
  CASE IsNaN(x) -> NaN
    [] IsInf(x) -> Inf(-x[2])
    [] OTHER -> <<x[1], -x[2], x[3]>>

Add(x, y) ==
  CASE IsNaN(x) \/ IsNaN(y) -> NaN
    [] IsInf(x) /\ IsInf(y) -> IF x[2] = y[2] THEN x ELSE NaN
    [] IsInf(x) -> x
    [] IsInf(y) -> y
    [] OTHER -> Q(x[2] * y[3] + y[2] * x[3], x[3] * y[3])

Sub(x, y) == Add(x, Neg(y))

Mul(x, y) ==
  CASE IsNaN(x) \/ IsNaN(y) -> NaN
    [] IsInf(x) \/ IsInf(y) ->
         IF SignOf(x) * SignOf(y) = 0 THEN NaN ELSE Inf(SignOf(x) * SignOf(y))
    [] OTHER ->
         LET g1 == GCD(Abs(x[2]), y[3])
             g2 == GCD(Abs(y[2]), x[3])
         IN Q((x[2] \div g1) * (y[2] \div g2), (x[3] \div g2) * (y[3] \div g1))

\* IEEE division of rationals: x/0 is +-inf, 0/0 is NaN, nothing is raised
Div(x, y) ==
  CASE IsNaN(x) \/ IsNaN(y) -> NaN
    [] IsInf(x) /\ IsInf(y) -> NaN
    [] IsInf(x) -> Inf(x[2] * (IF y[2] < 0 THEN -1 ELSE 1))
    [] IsInf(y) -> Zero
    [] y[2] = 0 -> IF x[2] = 0 THEN NaN ELSE Inf(Sign(x[2]))
    [] OTHER -> Mul(x, Q(y[3], y[2]))

\* np.sqrt of a rational: a surd; the square root of a negative number is NaN
Sqrt(x) ==
  CASE IsNaN(x) -> NaN
    [] IsInf(x) -> IF x[2] > 0 THEN x ELSE NaN
    [] x[2] < 0 -> NaN
    [] OTHER -> <<"sd", x[2], x[3]>>

\* rational / surd, as IEEE division: the result is a surd, +-inf or NaN
DivSurd(x, r) ==
  CASE IsNaN(x) \/ IsNaN(r) -> NaN
    [] IsInf(x) /\ IsInf(r) -> NaN
    [] IsInf(x) -> x
    [] IsInf(r) -> <<"sd", 0, 1>>
    [] r[2] = 0 -> IF x[2] = 0 THEN NaN ELSE Inf(Sign(x[2]))
    [] OTHER ->
         LET sq == Mul(Mul(x, x), Q(r[3], r[2]))
         IN <<"sd", Sign(x[2]) * sq[2], sq[3]>>

\* a/b < c/d for b, d > 0, by continued fractions (no product is formed)
RECURSIVE FracLt(_, _, _, _)
FracLt(a, b, c, d) ==
  LET qa == a \div b
      qc == c \div d
      ra == a - qa * b
      rc == c - qc * d
  IN IF qa # qc THEN qa < qc
     ELSE IF rc = 0 THEN FALSE
     ELSE IF ra = 0 THEN TRUE
     ELSE FracLt(d, rc, b, ra)

\* x < y on floats of one kind (both rationals or both surds); false on NaN.
\* sign(n) * sqrt(|n|/d) grows with n/d, so surds compare by their radicands
Lt(x, y) ==
  CASE IsNaN(x) \/ IsNaN(y) -> FALSE
    [] IsInf(x) /\ IsInf(y) -> x[2] < y[2]
    [] IsInf(x) -> x[2] < 0
    [] IsInf(y) -> y[2] > 0
    [] OTHER -> FracLt(x[2], x[3], y[2], y[3])

\* x == y on floats: NaN equals nothing, itself included
Eq(x, y) == ~IsNaN(x) /\ ~IsNaN(y) /\ x = y

Geq(x, y) == Lt(y, x) \/ Eq(x, y)

Leq(x, y) == Lt(x, y) \/ Eq(x, y)

\* x != 0, as Python evaluates it: true for NaN
NonZero(x) == IsNaN(x) \/ IsInf(x) \/ x[2] # 0

\* ======================= vectors and tables =======================
RECURSIVE SumSeq(_)
SumSeq(s) == IF s = <<>> THEN Zero ELSE Add(Head(s), SumSeq(Tail(s)))

\* pandas Series.sum(): NaN entries are skipped (skipna=True), all-NaN sums to 0
RECURSIVE SumSkipNa(_)
SumSkipNa(s) ==
  IF s = <<>> THEN Zero
  ELSE IF IsNaN(Head(s)) THEN SumSkipNa(Tail(s))
  ELSE Add(Head(s), SumSkipNa(Tail(s)))

Col(m, c) == [r \in 1..Len(m) |-> m[r][c]]

HasNaN(row) == \E c \in 1..Len(row) : IsNaN(row[c])

\* mutant of DropNa: nothing is dropped
M_DropNa(m) == m

\* DataFrame.dropna(): the rows holding a NaN are removed
DropNa(m) == SelectSeq(m, LAMBDA row : ~HasNaN(row))

\* mutant of PctChange: the ratio is taken the wrong way round
M_PctChange(d) ==
  [r \in 1..Len(d) |->
     [c \in 1..Len(d[r]) |->
        IF r = 1 THEN NaN ELSE Sub(Div(d[r - 1][c], d[r][c]), One)]]

\* DataFrame.pct_change(): the first row has no prior price and is NaN
PctChange(d) ==
  [r \in 1..Len(d) |->
     [c \in 1..Len(d[r]) |->
        IF r = 1 THEN NaN ELSE Sub(Div(d[r][c], d[r - 1][c]), One)]]

\* the price of row r, column c after a forward fill: a missing price takes the
\* last price before it, a missing first price stays missing
RECURSIVE PadAt(_, _, _)
PadAt(d, r, c) ==
  IF IsNaN(d[r][c]) /\ r > 1 THEN PadAt(d, r - 1, c) ELSE d[r][c]

\* the fill pct_change applies before dividing when fill_method = "pad"
Pad(d) == [r \in 1..Len(d) |-> [c \in 1..Len(d[r]) |-> PadAt(d, r, c)]]

\* Series.mean(): NaN for an empty column
Mean(col) ==
  IF Len(col) = 0 THEN NaN ELSE Div(SumSeq(col), Q(Len(col), 1))

\* sample covariance (N-1 denominator): NaN with fewer than two observations
CovSample(a, b) ==
  IF Len(a) <= 1 THEN NaN
  ELSE LET ma == Mean(a)
           mb == Mean(b)
       IN Div(SumSeq([k \in 1..Len(a) |-> Mul(Sub(a[k], ma), Sub(b[k], mb))]),
              Q(Len(a) - 1, 1))

\* Series.std(): sample standard deviation
Std(col) == Sqrt(CovSample(col, col))

\* surd * sqrt(k)
SurdTimesSqrt(s, k) ==
  IF IsNaN(s) THEN NaN ELSE Sqrt(Mul(<<"q", s[2], s[3]>>, Q(k, 1)))

\* retornos_diarios.mean() * 252, one entry per column
MeanAnual(rets, n) == [c \in 1..n |-> Mul(Mean(Col(rets, c)), Q(TradingDays, 1))]

\* retornos_diarios.std() * sqrt(252), one entry per column
VolAnual(rets, n) == [c \in 1..n |-> SurdTimesSqrt(Std(Col(rets, c)), TradingDays)]

\* retornos_diarios.cov() * 252
CovAnual(rets, n) ==
  [a \in 1..n |->
     [b \in 1..n |-> Mul(CovSample(Col(rets, a), Col(rets, b)), Q(TradingDays, 1))]]

\* np.dot of two vectors: NaN propagates
Dot(u, v) == SumSeq([k \in 1..Len(u) |-> Mul(u[k], v[k])])

\* np.dot(w.T, np.dot(cov, w))
QuadForm(w, cov) == Dot(w, [a \in 1..Len(cov) |-> Dot(cov[a], w)])

\* pesos /= np.sum(pesos): an all-zero draw divides 0 by 0
Normalize(draws) ==
  LET s == SumSeq(draws) IN [k \in 1..Len(draws) |-> Div(draws[k], s)]

\* np.random.random(n): n values of [0, 1), on the grid k / (MaxDraw + 1)
RandomDraws(n) == [1..n -> {Q(k, MaxDraw + 1) : k \in 0..MaxDraw}]

\* np.argmax as numpy scans: the first NaN wins, else the first greatest entry
\* (positions are 1-based here; the caller subtracts one)
RECURSIVE ArgMaxScan(_, _, _)
ArgMaxScan(s, k, best) ==
  IF k > Len(s) THEN best
  ELSE IF IsNaN(s[best]) THEN best
  ELSE IF IsNaN(s[k]) \/ Lt(s[best], s[k]) THEN ArgMaxScan(s, k + 1, k)
  ELSE ArgMaxScan(s, k + 1, best)

ArgMax(s) == ArgMaxScan(s, 2, 1) - 1

\* np.argmin: the first NaN wins, else the first least entry
RECURSIVE ArgMinScan(_, _, _)
ArgMinScan(s, k, best) ==
  IF k > Len(s) THEN best
  ELSE IF IsNaN(s[best]) THEN best
  ELSE IF IsNaN(s[k]) \/ Lt(s[k], s[best]) THEN ArgMinScan(s, k + 1, k)
  ELSE ArgMinScan(s, k + 1, best)

ArgMin(s) == ArgMinScan(s, 2, 1) - 1

\* Series.idxmax() / idxmin() followed by resumen.loc[label, ...]: an all-NaN
\* column has no label and the lookup raises
AllNaN(s) == \A k \in 1..Len(s) : IsNaN(s[k])

\* ======================= inputs =======================
\* the ticker text of app_portafolio is modelled as its comma-separated fields:
\* a field is a ticker (1..MaxAssets) or blank (Blank: nothing or white space
\* between the commas); the empty text is <<>>
Blank == 0

TickerList(n) == [k \in 1..n |-> k]

\* [t.strip().upper() for t in tickers_input.split(",")]: "".split(",") is
\* [""], so the empty text yields one blank identifier
ParseTickers(text) == IF text = <<>> THEN <<Blank>> ELSE text

\* the texts that can be typed: up to MaxAssets fields
TickerTexts == UNION {[1..n -> 0..MaxAssets] : n \in 0..MaxAssets}

\* the duplicate-free sequences that list every element of S
Orderings(S) ==
  {q \in [1..Cardinality(S) -> S] :
     \A a, b \in 1..Cardinality(S) : a # b => q[a] # q[b]}

\* the values of the multiselect of FinRisk Pro: distinct tickers, in the
\* order they were picked
TickerSelections == UNION {Orderings(S) : S \in SUBSET (1..MaxAssets)}

\* the identifiers of a request that name an asset
Requested(t) == SelectSeq(t, LAMBDA x : x # Blank)

\* the column labels the market-data source can answer with: one column for
\* each ticker it knows, a ticker asked twice counted once, in its own order
ColumnLists(t) ==
  LET known == Requested(t)
  IN UNION {Orderings(S) : S \in SUBSET {known[k] : k \in 1..Len(known)}}

Prices == {Q(p, 1) : p \in 1..MaxPrice}

\* the price tables the market-data source can return for n tickers
PriceTables(n) ==
  IF n = 0 THEN {<<>>}
  ELSE UNION {[1..r -> [1..n -> Prices]] : r \in 0..MaxRows}

\* the same with days on which a price is missing
MarketTables(n) ==
  IF n = 0 THEN {<<>>}
  ELSE UNION {[1..r -> [1..n -> Prices \cup {NaN}]] : r \in 0..MaxRows}

\* for i in range(num_simulaciones): the trial indices in the order of the loop
LoopOrder(n) == [k \in 1..n |-> k - 1]

\* the risk-free rate slider of FinRisk Pro, 0% .. 10%: its two ends
RiskFreeRates == {Zero, Q(1, 10)}

SurdZero == <<"sd", 0, 1>>

NoOptimo == <<>>

NoRun == [weights |-> <<>>, optimo |-> <<>>, min_risk_idx |-> -1, done |-> FALSE]

\* ======================= state =======================
\* what one run of the script has computed; everything is unset before Analyze
Fresh ==
  /\ pc = "idle"
  /\ err = ""
  /\ data = <<>>
  /\ rent_diaria = <<>>
  /\ rent_promedio = <<>>
  /\ riesgo = <<>>
  /\ sharpe = <<>>
  /\ precios_normalizados = <<>>
  /\ cov_matrix_anual = <<>>
  /\ equal_portfolio = <<>>
  /\ results = <<>>
  /\ weights_record = <<>>
  /\ i = 0
  /\ max_sharpe_idx = -1
  /\ min_risk_idx = -1
  /\ optimo = NoOptimo
  /\ shown = {}
  /\ cov_calls = 0

\* the widgets' values when the button is pressed and the table the source
\* holds for them; trials holds the values the simulation-count widget can
\* take.  The tickers are typed (or picked) without blanks or repeats and the
\* source answers with one column per ticker, in the order asked, no price
\* missing
InputsFrom(trials) ==
  /\ impl \in {"app", "fin"}
  /\ tickers_input \in {TickerList(n) : n \in 0..MaxAssets}
  /\ tickers = IF impl = "app" THEN ParseTickers(tickers_input) ELSE tickers_input
  /\ num_simulaciones \in trials
  /\ tasa_libre_riesgo \in (IF impl = "app" THEN {Zero} ELSE RiskFreeRates)
  /\ columns = Requested(tickers)
  /\ market \in PriceTables(Len(columns))

\* the simulation-count slider has min_value = 1000: never below one trial
Init ==
  /\ InputsFrom(1..MaxTrials)
  /\ order = LoopOrder(num_simulaciones)
  /\ Fresh
  /\ run = 1
  /\ prev = NoRun

\* the optimizer driven by a caller that may pass a trial count of 0
InitCore ==
  /\ InputsFrom(0..MaxTrials)
  /\ order = LoopOrder(num_simulaciones)
  /\ Fresh
  /\ run = 1
  /\ prev = NoRun

\* any text typed (blank fields and repeats included) or any selection, and
\* any answer of the market-data source: columns for the tickers it knows, in
\* its own order, with days on which a price is missing; one trial is asked for
InitMarket ==
  /\ impl \in {"app", "fin"}
  /\ tickers_input \in (IF impl = "app" THEN TickerTexts ELSE TickerSelections)
  /\ tickers = IF impl = "app" THEN ParseTickers(tickers_input) ELSE tickers_input
  /\ num_simulaciones = 1
  /\ tasa_libre_riesgo \in (IF impl = "app" THEN {Zero} ELSE RiskFreeRates)
  /\ columns \in ColumnLists(tickers)
  /\ market \in MarketTables(Len(columns))
  /\ order = LoopOrder(num_simulaciones)
  /\ Fresh
  /\ run = 1
  /\ prev = NoRun

\* the trial loop handed out to workers: the trial indices run in any order
InitAnyOrder ==
  /\ InputsFrom(1..MaxTrials)
  /\ order \in Orderings(0..(num_simulaciones - 1))
  /\ Fresh
  /\ run = 1
  /\ prev = NoRun

\* ======================= the request, step by step =======================
\* if not tickers_input (the text itself) / if not ticker (the selection)
NoTickers == IF impl = "app" THEN tickers_input = <<>> ELSE tickers = <<>>

\* the button is pressed; an empty ticker input is turned away
Analyze ==
  /\ pc = "idle"
  /\ pc' = IF NoTickers THEN "rejected" ELSE "download"
  /\ UNCHANGED <<inputs, err, data, rent_diaria, rent_promedio, riesgo, sharpe,
                 precios_normalizados, cov_matrix_anual, equal_portfolio, results,
                 weights_record, i, max_sharpe_idx, min_risk_idx, optimo, shown,
                 cov_calls, run, prev>>

\* yf.download(...)["Adj Close"] / ["Close"]
Download ==
  /\ pc = "download"
  /\ data' = market
  /\ pc' = "check"
  /\ UNCHANGED <<inputs, err, rent_diaria, rent_promedio, riesgo, sharpe,
                 precios_normalizados, cov_matrix_anual, equal_portfolio, results,
                 weights_record, i, max_sharpe_idx, min_risk_idx, optimo, shown,
                 cov_calls, run, prev>>

\* mutant of IsEmpty: no table counts as empty
M_IsEmpty(d) == FALSE

\* data.empty: the table has no row (or no column, which leaves no row here)
IsEmpty(d) == Len(d) = 0

\* if data.empty: st.error(...); st.stop().  app_portafolio then drops the
\* rows holding a NaN.  Both report the download as done (st.success) and
\* FinRisk Pro shows the price table and chart of its section 1
CheckEmpty ==
  /\ pc = "check"
  /\ IF IsEmpty(data)
     THEN /\ pc' = "stopped"
          /\ err' = "empty"
          /\ data' = data
          /\ shown' = shown
     ELSE /\ pc' = "returns"
          /\ err' = err
          /\ data' = IF impl = "app" THEN DropNa(data) ELSE data
          /\ shown' = shown \cup (IF impl = "app" THEN {"descarga"}
                                   ELSE {"descarga", "precios"})
  /\ UNCHANGED <<inputs, rent_diaria, rent_promedio, riesgo, sharpe,
                 precios_normalizados, cov_matrix_anual, equal_portfolio, results,
                 weights_record, i, max_sharpe_idx, min_risk_idx, optimo,
                 cov_calls, run, prev>>

\* rent_diaria = data.pct_change().dropna()
ComputeReturns(d) == DropNa(PctChange(d))

\* pct_change() forward-fills the missing prices first in the pandas releases
\* whose default is fill_method = "pad" and leaves them in the later ones;
\* FinRisk Pro then shows the returns of its section 2
Returns ==
  /\ pc = "returns"
  /\ \E filled \in {data, Pad(data)} : rent_diaria' = ComputeReturns(filled)
  /\ pc' = "stats"
  /\ shown' = shown \cup (IF impl = "fin" THEN {"retornos"} ELSE {})
  /\ UNCHANGED <<inputs, err, data, rent_promedio, riesgo, sharpe,
                 precios_normalizados, cov_matrix_anual, equal_portfolio, results,
                 weights_record, i, max_sharpe_idx, min_risk_idx, optimo,
                 cov_calls, run, prev>>

\* per-asset Sharpe: app divides the return, fin the excess return
AssetSharpe(mu, vol) ==
  [c \in 1..Len(mu) |->
     IF impl = "app" THEN DivSurd(mu[c], vol[c])
     ELSE DivSurd(Sub(mu[c], tasa_libre_riesgo), vol[c])]

\* data / data.iloc[0] * 100
Normalizados(d) ==
  [r \in 1..Len(d) |->
     [c \in 1..Len(d[r]) |-> Mul(Div(d[r][c], d[1][c]), Q(100, 1))]]

\* annualised mean, volatility and Sharpe of every column, shown as a table;
\* app_portafolio then charts the normalised prices (data.iloc[0] raises on a
\* table without rows)
Stats ==
  /\ pc = "stats"
  /\ LET n == Len(columns)
         mu == MeanAnual(rent_diaria, n)
         vol == VolAnual(rent_diaria, n)
     IN /\ rent_promedio' = mu
        /\ riesgo' = vol
        /\ sharpe' = AssetSharpe(mu, vol)
  /\ IF impl = "fin"
     THEN /\ pc' = "best_assets"
          /\ shown' = shown \cup {"metricas"}
          /\ UNCHANGED <<err, precios_normalizados>>
     ELSE IF Len(data) = 0
          THEN /\ pc' = "failed"
               /\ err' = "IndexError"
               /\ shown' = shown \cup {"metricas"}
               /\ UNCHANGED precios_normalizados
          ELSE /\ pc' = "mc"
               /\ precios_normalizados' = Normalizados(data)
               /\ shown' = shown \cup {"metricas", "normalizados"}
               /\ UNCHANGED err
  /\ UNCHANGED <<inputs, data, rent_diaria, cov_matrix_anual, equal_portfolio,
                 results, weights_record, i, max_sharpe_idx, min_risk_idx, optimo,
                 cov_calls, run, prev>>

\* FinRisk Pro: resumen[...].idxmax() / idxmin() and resumen.loc[label, ...];
\* a column that is NaN throughout yields no label and the lookup raises,
\* which the handler's except Exception reports
BestAssets ==
  /\ pc = "best_assets"
  /\ impl = "fin"
  /\ IF AllNaN(rent_promedio) \/ AllNaN(riesgo) \/ AllNaN(sharpe)
     THEN pc' = "failed" /\ err' = "KeyError" /\ shown' = shown
     ELSE pc' = "equal" /\ err' = err /\ shown' = shown \cup {"mejores"}
  /\ UNCHANGED <<inputs, data, rent_diaria, rent_promedio, riesgo, sharpe,
                 precios_normalizados, cov_matrix_anual, equal_portfolio, results,
                 weights_record, i, max_sharpe_idx, min_risk_idx, optimo,
                 cov_calls, run, prev>>

\* np.dot of a weight vector with the mean vector, and with the covariance
\* matrix, raises ValueError when the lengths differ; so does the product of
\* the pandas Series of means with the weight array
ShapesDiffer(w) == Len(w) # Len(rent_promedio)

\* FinRisk Pro: the equally weighted portfolio, its metrics and its pie chart
EqualWeights ==
  /\ pc = "equal"
  /\ impl = "fin"
  /\ LET n == Len(tickers)
         weights_equal == [k \in 1..n |-> Q(1, n)]
         portfolio_return == Dot(weights_equal, rent_promedio)
         portfolio_risk == Sqrt(QuadForm(weights_equal, CovAnual(rent_diaria, Len(columns))))
     IN IF ShapesDiffer(weights_equal)
        THEN /\ pc' = "failed"
             /\ err' = "ValueError"
             /\ UNCHANGED <<equal_portfolio, shown, cov_calls>>
        ELSE /\ equal_portfolio' =
                  [weights |-> weights_equal,
                   retorno |-> portfolio_return,
                   riesgo |-> portfolio_risk,
                   sharpe |-> DivSurd(Sub(portfolio_return, tasa_libre_riesgo),
                                      portfolio_risk)]
             /\ pc' = "mc"
             /\ shown' = shown \cup {"pesos_iguales"}
             /\ cov_calls' = cov_calls + 1
             /\ err' = err
  /\ UNCHANGED <<inputs, data, rent_diaria, rent_promedio, riesgo, sharpe,
                 precios_normalizados, cov_matrix_anual, results, weights_record, i,
                 max_sharpe_idx, min_risk_idx, optimo, run, prev>>

\* mutant of RunsMonteCarlo: a single asset is simulated too
M_RunsMonteCarlo(t) == Len(t) >= 1

\* if len(tickers) > 1: the Monte Carlo section
RunsMonteCarlo(t) == Len(t) > 1

\* np.zeros((3, num_simulaciones)): rows risk, return, Sharpe
ZeroResults(n) ==
  <<[k \in 1..n |-> SurdZero], [k \in 1..n |-> Zero], [k \in 1..n |-> SurdZero]>>

MonteCarloSetup ==
  /\ pc = "mc"
  /\ IF RunsMonteCarlo(tickers)
     THEN /\ results' = ZeroResults(num_simulaciones)
          /\ weights_record' = <<>>
          /\ cov_matrix_anual' =
               IF impl = "app" THEN CovAnual(rent_diaria, Len(columns))
               ELSE cov_matrix_anual
          /\ cov_calls' = IF impl = "app" THEN cov_calls + 1 ELSE cov_calls
          /\ i' = 0
          /\ pc' = "loop"
     ELSE /\ pc' = "done"
          /\ UNCHANGED <<results, weights_record, cov_matrix_anual, cov_calls, i>>
  /\ UNCHANGED <<inputs, err, data, rent_diaria, rent_promedio, riesgo, sharpe,
                 precios_normalizados, equal_portfolio, max_sharpe_idx,
                 min_risk_idx, optimo, shown, run, prev>>

\* the portfolio return of one weight vector: app sums a pandas Series (NaN
\* skipped), fin takes np.dot
PortfolioReturn(w) ==
  IF impl = "app"
  THEN SumSkipNa([k \in 1..Len(w) |-> Mul(rent_promedio[k], w[k])])
  ELSE Dot(w, rent_promedio)

\* the covariance matrix a trial multiplies with: app uses the matrix computed
\* before the loop, fin recomputes rent_diaria.cov() * 252 in every trial
TrialCov ==
  IF impl = "app" THEN cov_matrix_anual
  ELSE CovAnual(rent_diaria, Len(columns))

\* np.sqrt(np.dot(w.T, np.dot(cov, w)))
PortfolioRisk(w, cov) == Sqrt(QuadForm(w, cov))

\* the Sharpe of a trial: app divides unguarded, fin subtracts the risk-free
\* rate and stores 0 when the risk is 0
PortfolioSharpe(ret, risk) ==
  IF impl = "app" THEN DivSurd(ret, risk)
  ELSE IF NonZero(risk) THEN DivSurd(Sub(ret, tasa_libre_riesgo), risk)
  ELSE SurdZero

\* mutant of LoopCond: one trial too many
M_LoopCond(k) == k <= num_simulaciones

\* for i in range(num_simulaciones)
LoopCond(k) == k < num_simulaciones

\* the index handed to the trial that runs next, i counting the trials already
\* run: the next of order (range(num_simulaciones) itself in the scripts)
TrialIndex == IF i + 1 \in DOMAIN order THEN order[i + 1] ELSE i

\* mutant of SlotOf: every trial writes the first column
M_SlotOf(k) == 1

\* results[0, i], results[1, i], results[2, i]: the column of trial index k
\* (columns are counted from 1 here)
SlotOf(k) == k + 1

\* one trial: draw, normalise, record the weights, evaluate, store in the
\* slot of the trial's index.  The evaluation raises when the weight vector
\* and the statistics differ in length, after the weights were appended
Trial ==
  /\ pc = "loop"
  /\ LoopCond(i)
  /\ \E draws \in RandomDraws(Len(tickers)) :
     \E pesos \in {Normalize(draws)} :
       /\ weights_record' = Append(weights_record, pesos)
       /\ IF ShapesDiffer(pesos)
          THEN /\ pc' = "failed"
               /\ err' = "ValueError"
               /\ UNCHANGED <<results, i, cov_calls>>
          ELSE \E cov \in {TrialCov} :
               \E ret \in {PortfolioReturn(pesos)}, risk \in {PortfolioRisk(pesos, cov)} :
                 /\ results' = [results EXCEPT
                                 ![1][SlotOf(TrialIndex)] = risk,
                                 ![2][SlotOf(TrialIndex)] = ret,
                                 ![3][SlotOf(TrialIndex)] = PortfolioSharpe(ret, risk)]
                 /\ i' = i + 1
                 /\ cov_calls' = IF impl = "fin" THEN cov_calls + 1 ELSE cov_calls
                 /\ UNCHANGED <<pc, err>>
  /\ UNCHANGED <<inputs, data, rent_diaria, rent_promedio, riesgo, sharpe,
                 precios_normalizados, cov_matrix_anual, equal_portfolio,
                 max_sharpe_idx, min_risk_idx, optimo, shown, run, prev>>

\* mutant of OptimoAt: the weights are read at the first entry
M_OptimoAt(idx) ==
  [riesgo |-> results[1][idx + 1],
   retorno |-> results[2][idx + 1],
   sharpe |-> results[3][idx + 1],
   pesos |-> weights_record[1]]

\* the record read back at index idx (0-based, as in the source)
OptimoAt(idx) ==
  [riesgo |-> results[1][idx + 1],
   retorno |-> results[2][idx + 1],
   sharpe |-> results[3][idx + 1],
   pesos |-> weights_record[idx + 1]]

\* after the loop: np.argmax(results[2]) (and np.argmin(results[0]) in FinRisk
\* Pro); np.argmax of an empty row raises ValueError
Select ==
  /\ pc = "loop"
  /\ ~LoopCond(i)
  /\ IF Len(results[3]) = 0
     THEN /\ pc' = "failed"
          /\ err' = "ValueError"
          /\ UNCHANGED <<max_sharpe_idx, min_risk_idx, optimo, shown>>
     ELSE /\ max_sharpe_idx' = ArgMax(results[3])
          /\ min_risk_idx' = IF impl = "fin" THEN ArgMin(results[1]) ELSE min_risk_idx
          /\ optimo' = OptimoAt(ArgMax(results[3]))
          /\ pc' = "done"
          /\ err' = err
          /\ shown' = shown \cup {"optimo"}
  /\ UNCHANGED <<inputs, data, rent_diaria, rent_promedio, riesgo, sharpe,
                 precios_normalizados, cov_matrix_anual, equal_portfolio, results,
                 weights_record, i, cov_calls, run, prev>>

\* the button is pressed again with the same widget values and the same market
\* data: the script runs afresh, the process-wide numpy generator is not reset
Rerun ==
  /\ pc = "done"
  /\ run < MaxRuns
  /\ prev' = [weights |-> weights_record, optimo |-> optimo,
              min_risk_idx |-> min_risk_idx, done |-> TRUE]
  /\ run' = run + 1
  /\ pc' = "idle"
  /\ err' = ""
  /\ data' = <<>>
  /\ rent_diaria' = <<>>
  /\ rent_promedio' = <<>>
  /\ riesgo' = <<>>
  /\ sharpe' = <<>>
  /\ precios_normalizados' = <<>>
  /\ cov_matrix_anual' = <<>>
  /\ equal_portfolio' = <<>>
  /\ results' = <<>>
  /\ weights_record' = <<>>
  /\ i' = 0
  /\ max_sharpe_idx' = -1
  /\ min_risk_idx' = -1
  /\ optimo' = NoOptimo
  /\ shown' = {}
  /\ cov_calls' = 0
  /\ UNCHANGED inputs

Next ==
  \/ Analyze
  \/ Download
  \/ CheckEmpty
  \/ Returns
  \/ Stats
  \/ BestAssets
  \/ EqualWeights
  \/ MonteCarloSetup
  \/ Trial
  \/ Select

Spec == Init /\ [][Next]_vars

SpecCore == InitCore /\ [][Next]_vars

NextRerun == Next \/ Rerun

\* a request of one trial, repeated
InitRerun ==
  /\ Init
  /\ num_simulaciones = 1

SpecRerun == InitRerun /\ [][NextRerun]_vars

SpecMarket == InitMarket /\ [][Next]_vars

SpecAnyOrder == InitAnyOrder /\ [][Next]_vars

\* a step of the trial loop as the interpreter sees it: the next trial, or
\* the loop is left (for the selection, or by an exception)
LoopStep ==
  /\ pc = "loop"
  /\ pc' \in {"loop", "done", "failed"}
  /\ i' \in {i, i + 1}

\* the interpreter does not stop in the middle of the loop
SpecFair == Spec /\ WF_<<pc, i>>(LoopStep)

\* ======================= properties =======================
\* the steps that follow the computation of the returns
AfterReturns == {"stats", "best_assets", "equal", "mc", "loop", "done"}

\* the Monte Carlo section has run to its end and selected an optimum
Selected == pc = "done" /\ optimo # NoOptimo

\* C1 (as claimed): every recorded weight vector has all elements >= 0 and
\* elements summing to 1, the all-zero draw included
C1_Original ==
  \A k \in 1..Len(weights_record) :
    /\ \A a \in 1..Len(weights_record[k]) : Geq(weights_record[k][a], Zero)
    /\ Eq(SumSeq(weights_record[k]), One)

\* C2 (as claimed): the selected trial's Sharpe is >= the Sharpe of every
\* recorded trial, and no earlier trial has the same Sharpe
C2_Original ==
  Selected =>
    LET s == results[3]
        b == max_sharpe_idx + 1
    IN /\ \A j \in 1..Len(s) : Geq(s[b], s[j])
       /\ \A j \in 1..(b - 1) : ~Eq(s[j], s[b])

\* C3 (as claimed): every implementation produces a min-risk record whose risk
\* is <= the risk of every recorded trial, ties going to the lowest index
C3_Original ==
  Selected =>
    /\ min_risk_idx >= 0
    /\ LET r == results[1]
           m == min_risk_idx + 1
       IN /\ \A j \in 1..Len(r) : Leq(r[m], r[j])
          /\ \A j \in 1..(m - 1) : ~Eq(r[j], r[m])

C5_SingleTrial ==
  num_simulaciones = 1 =>
    /\ Len(weights_record) <= 1
    /\ i <= 1
    /\ (pc = "done" /\ RunsMonteCarlo(tickers)) =>
         /\ i = 1
         /\ Len(weights_record) = 1
         /\ max_sharpe_idx = 0
         /\ optimo = [riesgo |-> results[1][1], retorno |-> results[2][1],
                      sharpe |-> results[3][1], pesos |-> weights_record[1]]

C5_Witness ==
  /\ num_simulaciones = 1
  /\ Selected
  /\ ~IsNaN(optimo.sharpe)
  /\ optimo.riesgo # SurdZero

\* C6 (as claimed): a second run with the same inputs records the same weight
\* vectors and selects the same optimum records
C6_Original ==
  (prev.done /\ pc = "done") =>
    /\ weights_record = prev.weights
    /\ optimo = prev.optimo
    /\ min_risk_idx = prev.min_risk_idx

C8_Original == pc \in AfterReturns => Len(data) >= 2

\* product of (1 + return) of column c over the first k rows
RECURSIVE CumGrowth(_, _, _)
CumGrowth(rets, k, c) ==
  IF k = 0 THEN One ELSE Mul(CumGrowth(rets, k - 1, c), Add(One, rets[k][c]))

\* C9: a price table of n >= 2 rows gives n-1 rows of returns, row i-1 being
\* price[i]/price[i-1] - 1 for every asset
C9_ReturnMatrix ==
  (pc \in AfterReturns /\ Len(data) >= 2) =>
    /\ Len(rent_diaria) = Len(data) - 1
    /\ \A r \in 1..(Len(data) - 1) : \A c \in 1..Len(tickers) :
         rent_diaria[r][c] = Sub(Div(data[r + 1][c], data[r][c]), One)

C9_Witness ==
  /\ pc = "stats"
  /\ Len(data) = MaxRows
  /\ Len(rent_diaria) = MaxRows - 1
  /\ \E c \in 1..Len(tickers) : Lt(rent_diaria[1][c], Zero) /\ Lt(Zero, rent_diaria[2][c])

\* C10: the cumulative product of (1 + return) up to t is price[t]/price[0];
\* app_portafolio's normalised prices are 100 times that product
C10_RoundTrip ==
  (pc \in AfterReturns /\ Len(data) >= 1) =>
    /\ \A t \in 1..Len(data) : \A c \in 1..Len(tickers) :
         /\ t - 1 <= Len(rent_diaria)
         /\ CumGrowth(rent_diaria, t - 1, c) = Div(data[t][c], data[1][c])
    /\ precios_normalizados # <<>> =>
         \A t \in 1..Len(data) : \A c \in 1..Len(tickers) :
           precios_normalizados[t][c] = Mul(Q(100, 1), CumGrowth(rent_diaria, t - 1, c))

C10_Witness ==
  /\ pc = "mc"
  /\ impl = "app"
  /\ Len(rent_diaria) >= 2
  /\ \E c \in 1..Len(tickers) :
       /\ rent_diaria[1][c] # Zero
       /\ rent_diaria[2][c] # Zero

\* C11 (as claimed): an asset whose annualised volatility is 0 gets the
\* undefined sentinel as its Sharpe (NaN, or the 0 the trial loop stores), one
\* value whatever the numerator, and never the signed infinity of a division
C11_Original ==
  pc \in (AfterReturns \ {"stats"}) =>
    \A c \in 1..Len(riesgo) :
      riesgo[c] = SurdZero => (IsNaN(sharpe[c]) \/ sharpe[c] = SurdZero)

\* the rule of the claimed trial Sharpe for one record: the excess return over
\* the risk when the risk is positive, the sentinel (0 or NaN) when it is 0
SharpeAsClaimed(ret, risk, s) ==
  /\ Lt(SurdZero, risk) => s = DivSurd(Sub(ret, tasa_libre_riesgo), risk)
  /\ risk = SurdZero => (IsNaN(s) \/ s = SurdZero)

\* C12 (as claimed): every recorded trial, and the equally weighted portfolio,
\* has Sharpe (return - riskFreeRate) / risk when risk > 0 and the sentinel
\* when risk = 0; no division by a zero risk in either script
C12_Original ==
  /\ pc \in {"loop", "done"} =>
       \A k \in 1..Len(weights_record) :
         SharpeAsClaimed(results[2][k], results[1][k], results[3][k])
  /\ equal_portfolio # <<>> =>
       SharpeAsClaimed(equal_portfolio.retorno, equal_portfolio.riesgo,
                       equal_portfolio.sharpe)

\* C13 (as claimed): when the weight vectors (one entry per requested ticker)
\* and the mean vector (one entry per price-table column) differ in length,
\* the evaluation fails with DimensionMismatchError and nothing of a trial is
\* recorded: no weight vector, no result slot written
C13_Original ==
  (rent_promedio # <<>> /\ Len(tickers) # Len(rent_promedio)) =>
    /\ pc \notin {"loop", "done"}
    /\ weights_record = <<>>
    /\ results \in {<<>>, ZeroResults(num_simulaciones)}
    /\ pc = "failed" => err = "DimensionMismatchError"

\* the table of the optimum's composition: pd.DataFrame({'Activo': tickers,
\* 'Peso': pesos_optimos}), row k pairing the k-th requested ticker with the
\* k-th weight
DfPesos == [k \in 1..Len(tickers) |-> [Activo |-> tickers[k], Peso |-> optimo.pesos[k]]]

\* C14 (as claimed): the weight shown for an asset is the weight that was
\* multiplied with that asset's mean and covariance row, i.e. with the column
\* of the same position, however the source orders the columns
C14_Original ==
  Selected =>
    \A k \in 1..Len(DfPesos) : DfPesos[k].Activo = columns[k]

\* the request has ended without its analysis: turned away, stopped or failed
Aborted == pc \in {"rejected", "stopped", "failed"}

\* C15 (as claimed): a request that fails at any step has shown none of its
\* results (tables, charts, metrics; the notice that the download succeeded
\* is not counted)
C15_Original == Aborted => shown \ {"descarga"} = {}

\* a price is missing somewhere in the table the source answers with
MissingPrice == \E r \in 1..Len(market) : HasNaN(market[r])

\* C16 (as claimed): a request whose price table holds a missing price fails;
\* it never goes on to the statistics with the bad rows dropped
C16_Original == MissingPrice => pc \notin AfterReturns

\* C17 (as claimed): a request that names no asset (no identifier at all, or
\* blank identifiers only) is turned away before anything is downloaded
C17_Original == Requested(tickers) = <<>> => pc \in {"idle", "rejected", "download"}

\* C18 (as claimed): no trial computes the covariance matrix again or changes
\* the price table, the returns, the mean vector or the covariance matrix
C18_Original ==
  [][(pc = "loop" /\ i' # i) =>
       /\ cov_calls' = cov_calls
       /\ UNCHANGED <<data, rent_diaria, rent_promedio, cov_matrix_anual>>]_vars

\* slot k of the result buffer and entry k of the weight list belong to one
\* trial: the recorded return and risk are those of the recorded weights
SameTrial(k) ==
  /\ results[2][k] = PortfolioReturn(weights_record[k])
  /\ results[1][k] = PortfolioRisk(weights_record[k], TrialCov)

SlotHoldsTrial(k) ==
  /\ SameTrial(k)
  /\ results[3][k] = PortfolioSharpe(results[2][k], results[1][k])

\* slot k still holds the zeros of np.zeros
SlotUntouched(k) ==
  /\ results[1][k] = SurdZero
  /\ results[2][k] = Zero
  /\ results[3][k] = SurdZero

\* C20: for every numTrials >= 1 the loop ends, after exactly numTrials
\* trials, with every slot holding the risk, return and Sharpe of a trial that
\* was run; each trial writes one slot that still held its zeros, no other
C20_LoopExact ==
  /\ [][(pc = "loop" /\ i' # i) =>
          /\ i' = i + 1
          /\ SlotUntouched(i')
          /\ \A k \in 1..num_simulaciones : \A r \in 1..3 :
               k # i' => results'[r][k] = results[r][k]]_vars
  /\ (pc = "loop" ~>
        /\ Selected
        /\ i = num_simulaciones
        /\ Len(weights_record) = num_simulaciones
        /\ \A k \in 1..num_simulaciones : SlotHoldsTrial(k))

C20_Witness ==
  /\ Selected
  /\ num_simulaciones = MaxTrials
  /\ i = MaxTrials
  /\ \A k \in 1..MaxTrials : ~IsNaN(results[3][k]) /\ ~SlotUntouched(k)
  /\ results[3][1] # results[3][MaxTrials]

\* C21: in the trial loop, after i trials the weight list has i entries and
\* entry k is the weight vector column k of the results was computed from;
\* the selected index lies in 0..numTrials-1 and the optimum reported is the
\* record of that index, weights included
C21_Aligned ==
  /\ pc = "loop" =>
       /\ Len(weights_record) = i
       /\ \A k \in 1..i : SlotHoldsTrial(k)
  /\ Selected =>
       /\ Len(weights_record) = num_simulaciones
       /\ max_sharpe_idx \in 0..(num_simulaciones - 1)
       /\ optimo.pesos = weights_record[max_sharpe_idx + 1]
       /\ optimo.riesgo = results[1][max_sharpe_idx + 1]
       /\ optimo.retorno = results[2][max_sharpe_idx + 1]
       /\ optimo.sharpe = results[3][max_sharpe_idx + 1]
       /\ optimo.retorno = PortfolioReturn(optimo.pesos)
       /\ optimo.riesgo = PortfolioRisk(optimo.pesos, TrialCov)

C21_Witness ==
  /\ Selected
  /\ max_sharpe_idx = 1
  /\ weights_record[1] # weights_record[2]
  /\ optimo.retorno # results[2][1]
  /\ ~IsNaN(optimo.sharpe)

\* nothing of the analysis has been computed or shown
NothingComputed ==
  /\ rent_diaria = <<>>
  /\ rent_promedio = <<>>
  /\ riesgo = <<>>
  /\ sharpe = <<>>
  /\ results = <<>>
  /\ weights_record = <<>>
  /\ i = 0
  /\ optimo = NoOptimo
  /\ shown = {}

\* where a request stands relative to the claimed order of its steps
StepsInOrder ==
  /\ pc \in {"idle", "rejected", "download"} => (data = <<>> /\ NothingComputed)
  /\ pc \in {"check", "stopped"} => (data = market /\ NothingComputed)
  /\ pc = "stopped" => (Len(market) = 0 /\ err = "empty")
  /\ Len(market) = 0 => pc \in {"idle", "rejected", "download", "check", "stopped"}
  /\ pc \in {"returns", "stats"} => (rent_promedio = <<>> /\ results = <<>>)
  /\ pc \in {"best_assets", "equal", "mc"} =>
       (rent_promedio # <<>> /\ results = <<>> /\ optimo = NoOptimo)
  /\ pc = "loop" => (rent_promedio # <<>> /\ optimo = NoOptimo)

\* C22: a request goes download -> emptiness check -> returns -> statistics
\* -> trial loop -> selection, each step only after the one before it; an
\* empty downloaded table stops the request with an error before the returns;
\* nothing is computed before the analyze action
C22_StepOrder ==
  /\ (pc = "idle" /\ StepsInOrder)
  /\ [][/\ StepsInOrder'
        /\ pc' = "download" => pc = "idle"
        /\ pc' = "check" => pc \in {"download", "check"}
        /\ pc' = "stopped" => pc \in {"check", "stopped"}
        /\ pc' = "returns" => pc \in {"check", "returns"}
        /\ pc' = "stats" => pc \in {"returns", "stats"}
        /\ pc' = "mc" => pc \in {"stats", "equal", "mc"}
        /\ pc' = "loop" => pc \in {"mc", "loop"}
        /\ pc' = "done" => pc \in {"mc", "loop", "done"}
        /\ optimo' # optimo => (pc = "loop" /\ i = num_simulaciones)]_vars

C22_Witness ==
  /\ pc = "stopped"
  /\ err = "empty"
  /\ Len(data) = 0
  /\ Len(tickers) = MaxAssets
====
